---- MODULE Spec2Model ----
(***************************************************************************)
(* A model of WordpressImporter (importers/wordpress.py): the streaming    *)
(* run() loop over the <item> elements of an export document, the field    *)
(* transformer get_values() with its date and slug normalisers, and the    *)
(* create-or-update reconciliation against the page table.                 *)
(*                                                                         *)
(* Text that the code inspects character by character (dates, slugs,       *)
(* titles) is a sequence of one-character strings.  Text the code only     *)
(* compares (post type, status, post id) is a TLA+ string.                 *)
(***************************************************************************)
EXTENDS Integers, Sequences, FiniteSets, TLC

\* ------------------------------------------------------------------ bounds

\* Longest document, in <item> elements.
MaxItems == 2
\* Number of times run() is invoked in one behaviour.
MaxRuns == 2
\* Longest raw slug given to parse_slug in the normaliser specification.
MaxSlugLen == 2

\* ------------------------------------------------------------------ text

\* Python's None where a text value is expected (dict.get of a missing key).
None == <<"NoneType">>

Digits == <<"0", "1", "2", "3", "4", "5", "6", "7", "8", "9">>

IsDigit(c) == \E i \in 1..10 : Digits[i] = c

DigitVal(c) == (CHOOSE i \in 1..10 : Digits[i] = c) - 1

\* str(value): the text itself, and "None" for None (parse_stream_fields and
\* slugify both coerce with str()).
Str(value) == IF value = None THEN <<"N", "o", "n", "e">> ELSE value

\* str.lower() on the letters the model's texts use.
Lower(c) ==
    CASE c = "A" -> "a"
      [] c = "B" -> "b"
      [] c = "N" -> "n"
      [] OTHER -> c

IsWord(c) == IsDigit(c) \/ c \in {"a", "b", "n", "o", "e", "A", "B", "N", "_"}

IsSpace(c) == c = " "

RECURSIVE LowerAll(_)
LowerAll(s) == IF s = <<>> THEN <<>> ELSE <<Lower(Head(s))>> \o LowerAll(Tail(s))

\* re.sub(r"[^\w\s-]", "", s)
RECURSIVE DropIllegal(_)
DropIllegal(s) ==
    IF s = <<>> THEN <<>>
    ELSE IF IsWord(Head(s)) \/ IsSpace(Head(s)) \/ Head(s) = "-"
         THEN <<Head(s)>> \o DropIllegal(Tail(s))
         ELSE DropIllegal(Tail(s))

\* re.sub(r"[-\s]+", "-", s): every maximal run of dashes and spaces becomes
\* one dash.
PutDash(rest) == IF rest /= <<>> /\ Head(rest) = "-" THEN rest ELSE <<"-">> \o rest

RECURSIVE CollapseSep(_)
CollapseSep(s) ==
    IF s = <<>> THEN <<>>
    ELSE IF IsSpace(Head(s)) \/ Head(s) = "-" THEN PutDash(CollapseSep(Tail(s)))
    ELSE <<Head(s)>> \o CollapseSep(Tail(s))

RECURSIVE LStrip(_)
LStrip(s) ==
    IF s /= <<>> /\ Head(s) \in {"-", "_"} THEN LStrip(Tail(s)) ELSE s

RECURSIVE RStrip(_)
RStrip(s) ==
    IF s /= <<>> /\ s[Len(s)] \in {"-", "_"}
    THEN RStrip(SubSeq(s, 1, Len(s) - 1))
    ELSE s

\* django.utils.text.slugify(value) for ASCII text: str(), lower(), drop what
\* is neither a word character, white space nor a dash, collapse runs of
\* dashes and white space to one dash, strip leading and trailing "-" and "_".
slugify(value) == RStrip(LStrip(CollapseSep(DropIllegal(LowerAll(Str(value))))))

\* Python truthiness of a text value or None.
Truthy(value) == value /= None /\ value /= <<>>

parse_slug_never_flags(value, title) ==
    IF ~Truthy(value) THEN <<slugify(title), "blank slug">>
    ELSE <<slugify(value), "OK">>

\* Lines 243-246: the outcome once the slug is made.
SlugOutcome(value, slug, changed) ==
    IF Truthy(value) /\ slug /= value
    THEN <<slug, "illegal chars found">>
    ELSE <<slug, changed>>

\* parse_slug(value, title) -> (slug, changed)
parse_slug(value, title) ==
    IF ~Truthy(value)
    THEN SlugOutcome(value, slugify(title), "blank slug")
    ELSE SlugOutcome(value, slugify(value), "OK")

\* ------------------------------------------------------------------ dates

\* str.split(" "): the pieces between single spaces (empty pieces kept).
PutFirst(c, rest) == << <<c>> \o Head(rest) >> \o Tail(rest)

RECURSIVE SplitSpace(_)
SplitSpace(s) ==
    IF s = <<>> THEN << <<>> >>
    ELSE IF Head(s) = " " THEN << <<>> >> \o SplitSpace(Tail(s))
    ELSE PutFirst(Head(s), SplitSpace(Tail(s)))

\* "T".join(parts)
RECURSIVE JoinT(_)
JoinT(parts) ==
    IF Len(parts) = 1 THEN parts[1]
    ELSE parts[1] \o <<"T">> \o JoinT(Tail(parts))

\* Number of consecutive digits of s from position i on.
RECURSIVE DigitRun(_, _)
DigitRun(s, i) ==
    IF i <= Len(s) /\ IsDigit(s[i]) THEN 1 + DigitRun(s, i + 1) ELSE 0

RECURSIVE NumAt(_, _, _)
NumAt(s, i, n) ==
    IF n = 0 THEN 0 ELSE NumAt(s, i, n - 1) * 10 + DigitVal(s[i + n - 1])

\* One numeric directive of strptime at position i: a run of minw..maxw
\* digits (the directive's regex cannot stop inside a run, as a separator
\* follows it) with a value in lo..hi.
FieldOf(i, n, v, minw, maxw, lo, hi) ==
    IF n >= minw /\ n <= maxw /\ v >= lo /\ v <= hi
    THEN [ok |-> TRUE, val |-> v, next |-> i + n]
    ELSE [ok |-> FALSE, val |-> 0, next |-> i]

FieldRun(s, i, n, minw, maxw, lo, hi) ==
    FieldOf(i, n, NumAt(s, i, n), minw, maxw, lo, hi)

Field(s, i, minw, maxw, lo, hi) ==
    FieldRun(s, i, DigitRun(s, i), minw, maxw, lo, hi)

\* A literal of the format at position i; the format is matched ignoring
\* case, which matters for its one letter.
Lit(s, i, c) == i <= Len(s) /\ (s[i] = c \/ (c = "T" /\ s[i] = "t"))

IsLeap(y) == (y % 4 = 0 /\ y % 100 /= 0) \/ y % 400 = 0

DaysIn(y, m) ==
    IF m = 2 THEN (IF IsLeap(y) THEN 29 ELSE 28)
    ELSE IF m \in {4, 6, 9, 11} THEN 30 ELSE 31

ValidDateTime_any_day(y, m, d, H, M, S) ==
    /\ y >= 1 /\ y <= 9999
    /\ m >= 1 /\ m <= 12
    /\ d >= 1 /\ d <= 31
    /\ H >= 0 /\ H <= 23
    /\ M >= 0 /\ M <= 59
    /\ S >= 0 /\ S <= 59

\* datetime's own range check of the parsed numbers (year 1..9999, a day
\* the month has, second at most 59).
ValidDateTime(y, m, d, H, M, S) ==
    /\ y >= 1 /\ y <= 9999
    /\ m >= 1 /\ m <= 12
    /\ d >= 1 /\ d <= DaysIn(y, m)
    /\ H >= 0 /\ H <= 23
    /\ M >= 0 /\ M <= 59
    /\ S >= 0 /\ S <= 59

DateError(kind) == [ok |-> FALSE, err |-> kind]

\* The six directives of "%Y-%m-%dT%H:%M:%S" in turn, each starting after the
\* literal that follows the one before it.
StrptimeDone(s, fy, fm, fd, fH, fM, fS) ==
    IF /\ fy.ok /\ Lit(s, fy.next, "-")
       /\ fm.ok /\ Lit(s, fm.next, "-")
       /\ fd.ok /\ Lit(s, fd.next, "T")
       /\ fH.ok /\ Lit(s, fH.next, ":")
       /\ fM.ok /\ Lit(s, fM.next, ":")
       /\ fS.ok /\ fS.next = Len(s) + 1
       /\ ValidDateTime(fy.val, fm.val, fd.val, fH.val, fM.val, fS.val)
    THEN [ok |-> TRUE,
          dt |-> [Y |-> fy.val, m |-> fm.val, d |-> fd.val,
                  H |-> fH.val, M |-> fM.val, S |-> fS.val]]
    ELSE DateError("ValueError")

StrptimeS(s, fy, fm, fd, fH, fM) ==
    StrptimeDone(s, fy, fm, fd, fH, fM, Field(s, fM.next + 1, 1, 2, 0, 61))

StrptimeM(s, fy, fm, fd, fH) ==
    StrptimeS(s, fy, fm, fd, fH, Field(s, fH.next + 1, 1, 2, 0, 59))

StrptimeH(s, fy, fm, fd) ==
    StrptimeM(s, fy, fm, fd, Field(s, fd.next + 1, 1, 2, 0, 23))

StrptimeD(s, fy, fm) == StrptimeH(s, fy, fm, Field(s, fm.next + 1, 1, 2, 1, 31))

StrptimeMonth(s, fy) == StrptimeD(s, fy, Field(s, fy.next + 1, 1, 2, 1, 12))

\* datetime.strptime(s, "%Y-%m-%dT%H:%M:%S"): the naive timestamp, or
\* ValueError.
strptime(s) == StrptimeMonth(s, Field(s, 1, 4, 4, 0, 9999))

\* django.utils.timezone.make_aware(naive): the same wall-clock time with the
\* current time zone attached.
make_aware(dt) == dt @@ [tz |-> "current"]

\* The literal of line 218: "0000-00-00 00:00:00".
Sentinel ==
    <<"0", "0", "0", "0", "-", "0", "0", "-", "0", "0", " ",
      "0", "0", ":", "0", "0", ":", "0", "0">>

\* The literal of line 219: "1900-01-01 00:00:00".
Fallback ==
    <<"1", "9", "0", "0", "-", "0", "1", "-", "0", "1", " ",
      "0", "0", ":", "0", "0", ":", "0", "0">>

\* The result of parse_date once strptime has answered.
ParsedDate(p, valid) ==
    IF p.ok THEN [ok |-> TRUE, formatted |-> make_aware(p.dt), valid |-> valid]
    ELSE p

\* Lines 222-223 on the text v.
FormatDate(v, valid) ==
    IF v = None THEN DateError("AttributeError")
    ELSE ParsedDate(strptime(JoinT(SplitSpace(v))), valid)

parse_date_keeps_valid(value) ==
    FormatDate(IF value = Sentinel THEN Fallback ELSE value, TRUE)

\* parse_date(value) -> (formatted, valid), or the exception it raises:
\* AttributeError for None (None has no split), ValueError from strptime.
parse_date(value) ==
    FormatDate(IF value = Sentinel THEN Fallback ELSE value, value /= Sentinel)

\* ------------------------------------------------------------------ mapping

Range(seq) == {seq[i] : i \in DOMAIN seq}

\* wordpress_mapping.mapping["item"]: source field -> target fields (the
\* comma-separated text of the mapping, already split on ","), with the
\* source fields in the mapping's own order.
mapping_keys ==
    <<"title", "wp:post_id", "wp:post_name", "wp:post_date", "content:encoded">>

mapping_item ==
    "title" :> <<"title">> @@
    "wp:post_id" :> <<"wp_post_id">> @@
    "wp:post_name" :> <<"slug">> @@
    "wp:post_date" :> <<"first_published_at">> @@
    "content:encoded" :> <<"body", "wp_raw_content">>

\* mapping["validate_date"], mapping["validate_slug"] and
\* mapping["stream_fields"], each split on ",".
mapping_valid_date == <<"first_published_at">>

mapping_valid_slug == <<"slug">>

mapping_stream_fields == <<"body">>

\* map_item_inverse(): target field -> source field; a target field named
\* twice keeps the source field seen last.
RECURSIVE InverseUpTo(_)
Register(prev, key, targets) ==
    [t \in DOMAIN prev \cup targets |-> IF t \in targets THEN key ELSE prev[t]]

InverseUpTo(n) ==
    IF n = 0 THEN [t \in {} |-> ""]
    ELSE Register(InverseUpTo(n - 1), mapping_keys[n],
                  Range(mapping_item[mapping_keys[n]]))

map_item_inverse == InverseUpTo(Len(mapping_keys))

mapping_item_inverse == map_item_inverse

\* The key None that dict.get returns for a target field the inverse does
\* not know: no item has it.
NoKey == "<None>"

\* mapping_item_inverse.get(field)
InverseGet(field) ==
    IF field \in DOMAIN mapping_item_inverse
    THEN mapping_item_inverse[field] ELSE NoKey

\* item.get(key)
ItemGet(item, key) == IF key \in DOMAIN item THEN item[key] ELSE None

\* ------------------------------------------------------------------ get_values

\* parse_stream_fields(value): the three external stages in the order the
\* code applies them, then the block builder; returns
\* (json.dumps(blocks), value, blocks).
StreamResult(value, blocks) == <<[json |-> blocks, indent |-> "none"], value, blocks>>

Cleaned(value) ==
    [stage |-> "bleach_clean",
     of |-> [stage |-> "fix_styles",
             of |-> [stage |-> "linebreaks_wp", of |-> Str(value)]]]

BuildBlocks(value) == StreamResult(value, [stage |-> "BlockBuilder.build", of |-> value])

parse_stream_fields(value) == BuildBlocks(Cleaned(value))

\* The first loop of get_values: page_values[field] = item[mapped], a
\* KeyError when the item lacks a mapped source field.
MappedMissing(item) ==
    {f \in DOMAIN mapping_item_inverse : mapping_item_inverse[f] \notin DOMAIN item}

\* The stream-field loop: the keys its n-th round writes over vals.
StreamRound(vals, html, r) ==
    (html :> r[1]) @@
    ("wp_processed_content" :> r[2]) @@
    ("wp_block_json" :> [json |-> r[3], indent |-> "4"]) @@ vals

RECURSIVE StreamValues(_, _, _)
StreamValues(item, vals, n) ==
    IF n = 0 THEN vals
    ELSE StreamRound(StreamValues(item, vals, n - 1), mapping_stream_fields[n],
                     parse_stream_fields(ItemGet(item,
                         InverseGet(mapping_stream_fields[n]))))

\* What parse_date answers for each date field, in the order of the loop.
ParsedDates(item) ==
    [n \in DOMAIN mapping_valid_date |->
        parse_date(ItemGet(item, InverseGet(mapping_valid_date[n])))]

\* The first date field parse_date raises on, or 0.
FirstBadDate(dates) ==
    IF \A n \in DOMAIN dates : dates[n].ok THEN 0
    ELSE CHOOSE n \in DOMAIN dates : ~dates[n].ok /\ \A k \in 1..(n - 1) : dates[k].ok

RECURSIVE DateValues(_, _, _)
DateValues(vals, dates, n) ==
    IF n = 0 THEN vals
    ELSE (mapping_valid_date[n] :> dates[n].formatted) @@ DateValues(vals, dates, n - 1)

\* What parse_slug answers for each slug field, in the order of the loop.
ParsedSlugs(item) ==
    [n \in DOMAIN mapping_valid_slug |->
        parse_slug(ItemGet(item, InverseGet(mapping_valid_slug[n])),
                   ItemGet(item, "title"))]

RECURSIVE SlugValues(_, _, _)
SlugValues(vals, slugs, n) ==
    IF n = 0 THEN vals
    ELSE (mapping_valid_slug[n] :> slugs[n][1]) @@ SlugValues(vals, slugs, n - 1)

\* slug_changed: False before the loop, then the outcome of the last slug
\* field.
SlugChanged(slugs) == IF slugs = <<>> THEN "False" ELSE slugs[Len(slugs)][2]

\* get_values from the stream-field loop on, given what the normalisers
\* answer: the exception of the first failing parse_date, or the values
\* with date_valid = all(date_valid) and slug_changed.
Transformed(streamed, dates, slugs) ==
    IF FirstBadDate(dates) /= 0
    THEN [err |-> dates[FirstBadDate(dates)].err]
    ELSE [err |-> "none",
          page_values |-> SlugValues(DateValues(streamed, dates, Len(dates)),
                                     slugs, Len(slugs)),
          date_valid |-> \A n \in DOMAIN dates : dates[n].valid,
          slug_changed |-> SlugChanged(slugs)]

\* get_values(item) -> (page_values, date_valid, slug_changed), or the
\* exception that leaves it: KeyError from the first loop, then
\* AttributeError or ValueError from parse_date.
get_values(item) ==
    IF MappedMissing(item) /= {} THEN [err |-> "KeyError"]
    ELSE Transformed(StreamValues(item,
                        [f \in DOMAIN mapping_item_inverse |->
                            item[mapping_item_inverse[f]]],
                        Len(mapping_stream_fields)),
                     ParsedDates(item), ParsedSlugs(item))

\* ------------------------------------------------------------------ inputs

\* "2020-02-29 23:59:59"
DateGood ==
    <<"2", "0", "2", "0", "-", "0", "2", "-", "2", "9", " ",
      "2", "3", ":", "5", "9", ":", "5", "9">>

\* "2020-02-29T23:59:59"
DateT ==
    <<"2", "0", "2", "0", "-", "0", "2", "-", "2", "9", "T",
      "2", "3", ":", "5", "9", ":", "5", "9">>

\* "2021-02-30 00:00:00"
DateBad ==
    <<"2", "0", "2", "1", "-", "0", "2", "-", "3", "0", " ",
      "0", "0", ":", "0", "0", ":", "0", "0">>

\* node_to_dict(node): one flat record, field name -> text.
FullItem(type, status, id, name, date, title) ==
    "title" :> title @@
    "wp:post_id" :> id @@
    "wp:post_type" :> type @@
    "wp:status" :> status @@
    "wp:post_name" :> name @@
    "wp:post_date" :> date @@
    "content:encoded" :> <<"a">>

Without(item, key) == [k \in DOMAIN item \ {key} |-> item[k]]

ItemPublished == FullItem("post", "publish", "1", <<"a">>, DateGood, <<"a">>)

ItemDraftSameId == FullItem("post", "draft", "1", <<>>, Sentinel, <<"A", " ", "b">>)

ItemOddText == FullItem("post", "publish", "2", <<"A", "!">>, DateT, <<"b">>)

ItemPage == FullItem("page", "publish", "3", <<"b">>, DateGood, <<"b">>)

ItemBadDate == FullItem("post", "publish", "4", <<"b">>, DateBad, <<"b">>)

ItemNoSlugField ==
    Without(FullItem("post", "publish", "5", <<"b">>, DateGood, <<"b">>), "wp:post_name")

ItemNoType ==
    Without(FullItem("post", "publish", "6", <<"b">>, DateGood, <<"b">>), "wp:post_type")

ItemPool ==
    {ItemPublished, ItemDraftSameId, ItemOddText, ItemPage, ItemBadDate,
     ItemNoSlugField, ItemNoType}

\* The documents: every sequence of at most MaxItems items of the pool.
Docs == UNION {[1..n -> ItemPool] : n \in 0..MaxItems}

\* The keyword arguments of run().
Kwargs(app_model, parent_id, types, statuses) ==
    [app_model |-> app_model, parent_id |-> parent_id,
     page_types |-> types, page_statuses |-> statuses]

KwargsSet ==
    {Kwargs("ok", 1, {"post"}, {"publish"}),
     Kwargs("ok", 1, {"post"}, {"publish", "draft"}),
     Kwargs("ok", 1, {"post", "page"}, {"publish", "draft"}),
     Kwargs("missing", 1, {"post"}, {"publish", "draft"}),
     Kwargs("ok", 0, {"post"}, {"publish", "draft"})}

NoKwargs == Kwargs("", 0, {}, {})

\* A page the table holds before the first run.
OldPage(pk, wp_post_id, live) ==
    "pk" :> pk @@ "parent" :> 1 @@ "live" :> live @@
    "wp_post_id" :> wp_post_id @@ "title" :> <<"o">>

InitStores ==
    {<<>>,
     <<OldPage(2, "1", TRUE)>>,
     <<OldPage(2, "1", TRUE), OldPage(3, "1", FALSE)>>}

\* ------------------------------------------------------------------ state

VARIABLES
    doc,            \* the items of the document at self.xml_file, in order
    store,          \* the page table, ordered by primary key
    log_processed,  \* self.log_processed
    log_imported,   \* self.log_imported
    log_skipped,    \* self.log_skipped
    logged_items,   \* self.logged_items
    pc,             \* where the importer is: idle, running, done, exited, failed
    pos,            \* index in doc of the next item the loop reads
    kwargs,         \* the keyword arguments of the current run()
    runs,           \* run() calls so far
    start,          \* history: store, counters and log length when run() began
    last,           \* history: what the latest action did (for an item: the
                    \* state before it, the calls made, the page found, the
                    \* values get_values returned, the exception raised)
    hist,           \* history: one record per run() that has ended
    norm            \* a normaliser call: its function, input and result

vars ==
    <<doc, store, log_processed, log_imported, log_skipped, logged_items, pc,
      pos, kwargs, runs, start, last, hist, norm>>

Snapshot ==
    [store |-> store, processed |-> log_processed, imported |-> log_imported,
     skipped |-> log_skipped, nlog |-> Len(logged_items)]

\* The state after WordpressImporter(xml_file_path), over some page table.
Init ==
    /\ doc \in Docs
    /\ store \in InitStores
    /\ log_processed = 0
    /\ log_imported = 0
    /\ log_skipped = 0
    /\ logged_items = <<>>
    /\ pc = "idle"
    /\ pos = 0
    /\ kwargs = NoKwargs
    /\ runs = 0
    /\ start = [store |-> store, processed |-> 0, imported |-> 0, skipped |-> 0,
                nlog |-> 0]
    /\ last = [kind |-> "none"]
    /\ hist = <<>>
    /\ norm = [fn |-> "none"]

\* ------------------------------------------------------------------ reconciliation

\* Page.objects.get(pk=...): the root page, or a page of the table.
PageExists(pk) == pk = 1 \/ \E i \in DOMAIN store : store[i]["pk"] = pk

\* page_model_instance.objects.filter(wp_post_id=...).first(): the index of
\* the matching page with the least primary key, 0 when there is none.
page_exists_none(st, wp_post_id) == 0

Least(hits) == IF hits = {} THEN 0 ELSE CHOOSE i \in hits : \A j \in hits : i <= j

page_exists(st, wp_post_id) ==
    Least({i \in DOMAIN st :
             "wp_post_id" \in DOMAIN st[i] /\ st[i]["wp_post_id"] = wp_post_id})

\* create_page(values, status): the table with the new page appended.
create_page(st, values, status, parent_id) ==
    Append(st, ("parent" :> parent_id) @@ ("pk" :> Len(st) + 2) @@
               ("live" :> (status /= "draft")) @@ values)

update_page_no_unpublish(st, idx, values, status) ==
    [st EXCEPT ![idx] = values @@ st[idx]]

update_page_inserts(st, idx, values, status) ==
    Append(st, ("pk" :> Len(st) + 2) @@
               (IF status = "draft" THEN ("live" :> FALSE) @@ values @@ st[idx]
                ELSE values @@ st[idx]))

\* update_page(page_exists, values, status): every key of values set on the
\* page, the page saved, and unpublished when the status is draft.
update_page(st, idx, values, status) ==
    [st EXCEPT ![idx] = IF status = "draft"
                        THEN ("live" :> FALSE) @@ values @@ st[idx]
                        ELSE values @@ st[idx]]

eligible_either(item, kw) ==
    \/ ("wp:post_type" \in DOMAIN item /\ item["wp:post_type"] \in kw.page_types)
    \/ ("wp:status" \in DOMAIN item /\ item["wp:status"] \in kw.page_statuses)

\* The condition of lines 59-62.
eligible(item, kw) ==
    /\ "wp:post_type" \in DOMAIN item /\ item["wp:post_type"] \in kw.page_types
    /\ "wp:status" \in DOMAIN item /\ item["wp:status"] \in kw.page_statuses

LogEntry(item, result, reason, datecheck, slugcheck) ==
    ("log" :> [result |-> result, reason |-> reason,
               datecheck |-> datecheck, slugcheck |-> slugcheck]) @@ item

\* ------------------------------------------------------------------ run()

RunEnded(outcome) ==
    [kwargs |-> kwargs', outcome |-> outcome,
     returned |-> <<log_imported', log_skipped', log_processed'>>,
     reused |-> start'.nlog > 0 \/ start'.processed > 0,
     added |-> Len(store') - Len(start'.store),
     results |-> {logged_items'[i]["log"].result :
                    i \in (start'.nlog + 1)..Len(logged_items')}]

\* WordpressImporter(xml_file_path) again, for the same document: a new
\* importer, as every new process makes one.
Construct ==
    /\ pc \in {"done", "exited", "failed"}
    /\ runs < MaxRuns
    /\ log_processed' = 0
    /\ log_imported' = 0
    /\ log_skipped' = 0
    /\ logged_items' = <<>>
    /\ pc' = "idle"
    /\ pos' = 0
    /\ last' = [kind |-> "construct"]
    /\ UNCHANGED <<doc, store, kwargs, runs, start, hist, norm>>

Resolve_skips_parent(kw) == IF kw.app_model /= "ok" THEN "exited" ELSE "running"

\* Lines 33-50: exit() when apps.get_model raises LookupError, then when
\* Page.objects.get raises DoesNotExist; otherwise the loop is entered.
Resolve(kw) ==
    IF kw.app_model /= "ok" THEN "exited"
    ELSE IF ~PageExists(kw.parent_id) THEN "exited"
    ELSE "running"

\* run(**kw) up to the loop: the document is opened, the page model and the
\* parent page are resolved, and exit() ends the run when either is missing.
RunStart(kw) ==
    /\ pc \in {"idle", "done"}
    /\ runs < MaxRuns
    /\ runs' = runs + 1
    /\ kwargs' = kw
    /\ start' = Snapshot
    /\ last' = [kind |-> "start"]
    /\ pos' = 1
    /\ pc' = Resolve(kw)
    /\ UNCHANGED <<doc, store, log_processed, log_imported, log_skipped,
                   logged_items, norm>>
    /\ hist' = IF pc' = "exited" THEN Append(hist, RunEnded("exited")) ELSE hist

\* One iteration of the loop of run() on item, given whether it is eligible,
\* what get_values answers (gv) and the page the lookup finds (found): the
\* item is counted, filtered, transformed, reconciled and logged; an
\* exception of get_values leaves run() at once.
Iteration(item, ok, raised, gv, found) ==
    /\ log_processed' = log_processed + 1
    /\ log_imported' = IF ok /\ ~raised THEN log_imported + 1 ELSE log_imported
    /\ log_skipped' = IF ok THEN log_skipped ELSE log_skipped + 1
    /\ store' = IF ~ok \/ raised THEN store
                ELSE IF found /= 0
                     THEN update_page(store, found, gv.page_values, item["wp:status"])
                     ELSE create_page(store, gv.page_values, item["wp:status"],
                                      kwargs.parent_id)
    /\ logged_items' =
          IF raised THEN logged_items
          ELSE IF ~ok
               THEN Append(logged_items,
                           LogEntry(item, "skipped", "no title or status match", "", ""))
          ELSE IF found /= 0
               THEN Append(logged_items,
                           LogEntry(item, "updated", "existed",
                                    gv.date_valid, gv.slug_changed))
          ELSE Append(logged_items,
                      LogEntry(item, "created", "new", gv.date_valid, gv.slug_changed))
    /\ pc' = IF raised THEN "failed" ELSE "running"
    /\ pos' = IF raised THEN pos ELSE pos + 1
    /\ last' = [kind |-> "item", pos |-> pos, before |-> Snapshot,
                calls |-> IF ~ok THEN {}
                          ELSE IF raised THEN {"get_values"}
                          ELSE IF found /= 0 THEN {"get_values", "update_page"}
                          ELSE {"get_values", "create_page"},
                found |-> IF ok /\ ~raised THEN found ELSE 0,
                values |-> IF ok /\ ~raised THEN gv.page_values ELSE <<>>,
                raised |-> IF raised THEN gv.err ELSE "none"]

Transform(item, ok, gv) ==
    Iteration(item, ok, ok /\ gv.err /= "none", gv,
              page_exists(store, ItemGet(item, "wp:post_id")))

Step ==
    /\ pc = "running"
    /\ pos <= Len(doc)
    /\ Transform(doc[pos], eligible(doc[pos], kwargs), get_values(doc[pos]))
    /\ UNCHANGED <<doc, kwargs, runs, start, norm>>
    /\ hist' = IF pc' = "failed" THEN Append(hist, RunEnded("failed")) ELSE hist

\* The stream is exhausted: run() returns the counters and the log.
Finish ==
    /\ pc = "running"
    /\ pos > Len(doc)
    /\ pc' = "done"
    /\ last' = [kind |-> "return"]
    /\ UNCHANGED <<doc, store, log_processed, log_imported, log_skipped,
                   logged_items, pos, kwargs, runs, start, norm>>
    /\ hist' = Append(hist, RunEnded("done"))

Next ==
    \/ Construct
    \/ \E kw \in KwargsSet : RunStart(kw)
    \/ Step
    \/ Finish

Spec == Init /\ [][Next]_vars

\* ------------------------------------------------------------------ normalisers alone

\* n as decimal digits, at least w of them.
RECURSIVE Pad(_, _)
Pad(n, w) ==
    IF n < 10 /\ w <= 1 THEN <<Digits[n + 1]>>
    ELSE Pad(n \div 10, w - 1) \o <<Digits[(n % 10) + 1]>>

\* The text "y-m-d<sep>H:M:S" with the year on four digits and the other
\* numbers on at least w.
FmtDate(y, m, d, H, M, S, sep, w) ==
    Pad(y, 4) \o <<"-">> \o Pad(m, w) \o <<"-">> \o Pad(d, w) \o <<sep>> \o
    Pad(H, w) \o <<":">> \o Pad(M, w) \o <<":">> \o Pad(S, w)

\* Raw date texts: the sentinel, real and impossible calendar times, both
\* separators, padded and unpadded numbers, and texts of no date at all.
DateInputs ==
    {FmtDate(y, m, d, H, 0, S, sep, w) :
        y \in {0, 1900, 2020, 2021}, m \in {0, 2, 12, 13}, d \in {0, 1, 29, 30, 31, 32},
        H \in {0, 23, 24}, S \in {0, 59, 60}, sep \in {" ", "T"}, w \in {1, 2}}
    \cup {FmtDate(2020, 2, d, 5, 0, 6, sep, 2) : d \in {29, 30}, sep \in {"t", "-"}}
    \cup {FmtDate(2020, 4, d, 5, M, 6, " ", 2) : d \in {30, 31}, M \in {59, 60}}
    \cup {None, <<>>, <<"a">>, DateGood \o <<"0">>, DateGood \o <<" ">>,
          SubSeq(DateGood, 1, 10), <<"0">> \o DateGood}

SlugChars == {"a", "B", "1", " ", "-", "_", "!"}

SlugInputs == {None} \cup UNION {[1..n -> SlugChars] : n \in 0..MaxSlugLen}

TitleInputs == {None, <<>>, <<"A", " ", "b">>, <<"!">>, <<"-", "a", "_">>}

\* Raw records for get_values: the pool, and a full record less one field.
ItemInputs == ItemPool \cup {Without(ItemPublished, k) : k \in DOMAIN ItemPublished}

Call(fn, value, title) ==
    [fn |-> fn, value |-> value, title |-> title, done |-> FALSE, out |-> <<>>]

InitNorm ==
    /\ doc = <<>>
    /\ store = <<>>
    /\ log_processed = 0
    /\ log_imported = 0
    /\ log_skipped = 0
    /\ logged_items = <<>>
    /\ pc = "idle"
    /\ pos = 0
    /\ kwargs = NoKwargs
    /\ runs = 0
    /\ start = [store |-> <<>>, processed |-> 0, imported |-> 0, skipped |-> 0,
                nlog |-> 0]
    /\ last = [kind |-> "none"]
    /\ hist = <<>>
    /\ norm \in {Call("parse_date", v, None) : v \in DateInputs}
               \cup {Call("parse_slug", v, t) : v \in SlugInputs, t \in TitleInputs}
               \cup {Call("get_values", i, None) : i \in ItemInputs}

Main == <<doc, store, log_processed, log_imported, log_skipped, logged_items, pc,
          pos, kwargs, runs, start, last, hist>>

ApplyParseDate ==
    /\ norm.fn = "parse_date" /\ ~norm.done
    /\ norm' = [norm EXCEPT !.done = TRUE, !.out = parse_date(norm.value)]
    /\ UNCHANGED Main

ApplyParseSlug ==
    /\ norm.fn = "parse_slug" /\ ~norm.done
    /\ norm' = [norm EXCEPT !.done = TRUE, !.out = parse_slug(norm.value, norm.title)]
    /\ UNCHANGED Main

ApplyGetValues ==
    /\ norm.fn = "get_values" /\ ~norm.done
    /\ norm' = [norm EXCEPT !.done = TRUE, !.out = get_values(norm.value)]
    /\ UNCHANGED Main

NextNorm == ApplyParseDate \/ ApplyParseSlug \/ ApplyGetValues

SpecNorm == InitNorm /\ [][NextNorm]_vars


\* ------------------------------------------------------------------ properties

\* The item is in both allow-lists of the run.
InAllowLists(item, kw) ==
    /\ "wp:post_type" \in DOMAIN item /\ item["wp:post_type"] \in kw.page_types
    /\ "wp:status" \in DOMAIN item /\ item["wp:status"] \in kw.page_statuses

\* The log entries the current run() has appended.
RunEntries == (start.nlog + 1)..Len(logged_items)

Counters == [processed |-> log_processed, imported |-> log_imported,
             skipped |-> log_skipped]

\* A calendar time that exists, by the calendar's own rules.
MonthLen(y, m) ==
    CASE m \in {1, 3, 5, 7, 8, 10, 12} -> 31
      [] m \in {4, 6, 9, 11} -> 30
      [] OTHER -> IF (y % 4 = 0 /\ y % 100 /= 0) \/ y % 400 = 0 THEN 29 ELSE 28

RealTime(y, m, d, H, M, S) ==
    /\ y \in 1..9999 /\ m \in 1..12 /\ d \in 1..MonthLen(y, m)
    /\ H \in 0..23 /\ M \in 0..59 /\ S \in 0..59

\* The number written by the digits t[a..b].
RECURSIVE NumOf(_, _, _)
NumOf(t, a, b) == IF a > b THEN 0 ELSE NumOf(t, a, b - 1) * 10 + DigitVal(t[b])

\* v is a well-formed "YYYY-MM-DD HH:MM:SS" text: nineteen characters, the
\* separators in their places, digits elsewhere, naming a time that exists.
WellFormedText(v) ==
    /\ v /= None
    /\ Len(v) = 19
    /\ v[5] = "-" /\ v[8] = "-" /\ v[11] = " " /\ v[14] = ":" /\ v[17] = ":"
    /\ \A i \in (1..19) \ {5, 8, 11, 14, 17} : IsDigit(v[i])
    /\ RealTime(NumOf(v, 1, 4), NumOf(v, 6, 7), NumOf(v, 9, 10),
                NumOf(v, 12, 13), NumOf(v, 15, 16), NumOf(v, 18, 19))

\* The timestamp a well-formed text names.
TimestampOf(v) ==
    [Y |-> NumOf(v, 1, 4), m |-> NumOf(v, 6, 7), d |-> NumOf(v, 9, 10),
     H |-> NumOf(v, 12, 13), M |-> NumOf(v, 15, 16), S |-> NumOf(v, 18, 19)]

\* The k-th least element of a set of positions.
Kth(P, k) == CHOOSE i \in P : Cardinality({j \in P : j < i}) = k - 1

\* v reads as a time once every space is taken for a "T": four digits of
\* year, then month, day, hour, minute and second on one or two digits,
\* separated by "-", "-", "T" (of either case), ":" and ":", naming a time
\* that exists.
ReadsAt(t, P) ==
    /\ Cardinality(P) = 5
    /\ t[Kth(P, 1)] = "-" /\ t[Kth(P, 2)] = "-" /\ t[Kth(P, 3)] \in {"T", "t"}
    /\ t[Kth(P, 4)] = ":" /\ t[Kth(P, 5)] = ":"
    /\ Kth(P, 1) = 5
    /\ \A k \in 1..4 : Kth(P, k + 1) - Kth(P, k) \in {2, 3}
    /\ Len(t) - Kth(P, 5) \in {1, 2}
    /\ RealTime(NumOf(t, 1, 4),
                NumOf(t, Kth(P, 1) + 1, Kth(P, 2) - 1),
                NumOf(t, Kth(P, 2) + 1, Kth(P, 3) - 1),
                NumOf(t, Kth(P, 3) + 1, Kth(P, 4) - 1),
                NumOf(t, Kth(P, 4) + 1, Kth(P, 5) - 1),
                NumOf(t, Kth(P, 5) + 1, Len(t)))

Readable(v) ==
    /\ v /= None
    /\ ReadsAt([i \in 1..Len(v) |-> IF v[i] = " " THEN "T" ELSE v[i]],
               {i \in 1..Len(v) : ~IsDigit(v[i])})

\* The raw text of the item's date field (first_published_at comes from
\* wp:post_date).
HasDate(item) == "wp:post_date" \in DOMAIN item

\* The target fields the mapping names.
TargetFields == UNION {Range(mapping_item[k]) : k \in DOMAIN mapping_item}

Unique(st) ==
    \A i, j \in DOMAIN st :
        ("wp_post_id" \in DOMAIN st[i] /\ "wp_post_id" \in DOMAIN st[j]
         /\ st[i]["wp_post_id"] = st[j]["wp_post_id"]) => i = j

Holds(st, id) ==
    \E i \in DOMAIN st : "wp_post_id" \in DOMAIN st[i] /\ st[i]["wp_post_id"] = id

Imported(i) == logged_items[i]["log"].result /= "skipped"

\* C1: when run() has completed twice in a row with the same arguments over
\* the same document, the second run adds no page to the table and logs
\* every item it does not skip as "updated", never "created".
C1_Idempotent ==
    \A i \in 2..Len(hist) :
        (/\ hist[i - 1].outcome = "done"
         /\ hist[i].outcome = "done"
         /\ hist[i].kwargs = hist[i - 1].kwargs)
        => /\ hist[i].added = 0
           /\ hist[i].results \subseteq {"updated", "skipped"}

C1_Witness ==
    /\ Len(hist) >= 2
    /\ hist[1].outcome = "done" /\ hist[2].outcome = "done"
    /\ hist[2].kwargs = hist[1].kwargs
    /\ hist[1].added > 0
    /\ "created" \in hist[1].results
    /\ "updated" \in hist[2].results

\* C2: a run() that returns has counted processed = N, skipped = N - E and
\* imported = E, for the N items of the document of which E are in the
\* allow-lists.
C2_Counts ==
    \A i \in DOMAIN hist :
        hist[i].outcome = "done"
        => LET E == Cardinality({k \in DOMAIN doc : InAllowLists(doc[k], hist[i].kwargs)})
           IN  hist[i].returned = <<E, Len(doc) - E, Len(doc)>>

\* C3: an item outside the allow-lists reaches neither get_values nor
\* create_page nor update_page, leaves the table as it was, adds one to
\* skipped and none to imported, and is logged as skipped with reason
\* "no title or status match" and empty datecheck and slugcheck.
C3_Filtering ==
    (last.kind = "item" /\ ~InAllowLists(doc[last.pos], kwargs))
    => /\ last.calls = {}
       /\ store = last.before.store
       /\ log_skipped = last.before.skipped + 1
       /\ log_imported = last.before.imported
       /\ Len(logged_items) = last.before.nlog + 1
       /\ logged_items[Len(logged_items)]["log"].result = "skipped"
       /\ logged_items[Len(logged_items)]["log"] =
             [result |-> "skipped", reason |-> "no title or status match",
              datecheck |-> "", slugcheck |-> ""]

C3_Witness ==
    /\ last.kind = "item"
    /\ ~InAllowLists(doc[last.pos], kwargs)
    /\ last.pos > 1
    /\ last.before.store /= start.store
    /\ log_skipped = last.before.skipped + 1

\* C4: get_values returns without error for every raw record whose date text
\* (when it has one) can be read, a record that lacks a mapped field
\* included, and what it returns has a key for every mapped target field.
C4_MissingFieldTolerated ==
    (/\ norm.fn = "get_values" /\ norm.done
     /\ (HasDate(norm.value) =>
            norm.value["wp:post_date"] = Sentinel \/ Readable(norm.value["wp:post_date"])))
    => /\ norm.out.err = "none"
       /\ TargetFields \subseteq DOMAIN norm.out.page_values

\* What the latest iteration did when it called create_page: one page more,
\* live iff the status is not "draft", under the parent of the run, with
\* every transformed field.
C5_Created ==
    Len(store) = Len(last.before.store) + 1
    /\ SubSeq(store, 1, Len(store) - 1) = last.before.store
    /\ store[Len(store)]["live"] = (doc[last.pos]["wp:status"] /= "draft")
    /\ store[Len(store)]["parent"] = kwargs.parent_id
    /\ TargetFields \subseteq DOMAIN last.values
    /\ \A k \in DOMAIN last.values : store[Len(store)][k] = last.values[k]

\* What the latest iteration did when it called update_page: the page found
\* has every transformed field, is not live for a draft and as live as it
\* was otherwise; nothing else changed.
C5_Updated ==
    /\ Len(store) = Len(last.before.store)
    /\ \A i \in DOMAIN store : i /= last.found => store[i] = last.before.store[i]
    /\ TargetFields \subseteq DOMAIN last.values
    /\ \A k \in DOMAIN last.values : store[last.found][k] = last.values[k]
    /\ store[last.found]["live"] =
          IF doc[last.pos]["wp:status"] = "draft" THEN FALSE
          ELSE last.before.store[last.found]["live"]
    /\ store[last.found]["pk"] = last.before.store[last.found]["pk"]
    /\ store[last.found]["parent"] = last.before.store[last.found]["parent"]

\* C5: create_page appends a page that is live exactly when the status is
\* not "draft", under the parent of the run, carrying every transformed
\* field; update_page sets every transformed field on the page found and
\* leaves it not live when the status is "draft", with the live flag it had
\* otherwise; so a draft is never live after either.
C5_LiveFlag ==
    /\ (last.kind = "item" /\ "create_page" \in last.calls) => C5_Created
    /\ (last.kind = "item" /\ "update_page" \in last.calls) => C5_Updated
    /\ (last.kind = "item" /\ last.calls \cap {"create_page", "update_page"} /= {}
        /\ doc[last.pos]["wp:status"] = "draft")
       => \E i \in DOMAIN store :
             /\ store[i]["wp_post_id"] = doc[last.pos]["wp:post_id"]
             /\ ~store[i]["live"]
             /\ (i = last.found \/ i = Len(store))

C5_Witness ==
    /\ last.kind = "item"
    /\ "update_page" \in last.calls
    /\ doc[last.pos]["wp:status"] = "draft"
    /\ last.before.store[last.found]["live"]
    /\ ~store[last.found]["live"]

\* C6: a run() whose page model or parent page cannot be resolved ends before
\* the loop: the counters, the log and the table are what they were when
\* run() was called, and a run() that reaches the loop has resolved both.
C6_FatalResolution ==
    /\ pc = "exited"
       => /\ store = start.store
          /\ Counters = [processed |-> start.processed, imported |-> start.imported,
                         skipped |-> start.skipped]
          /\ Len(logged_items) = start.nlog
          /\ last.kind = "start"
    /\ pc \in {"running", "done", "failed"}
       => /\ kwargs.app_model = "ok"
          /\ (kwargs.parent_id = 1
              \/ \E i \in DOMAIN start.store : start.store[i]["pk"] = kwargs.parent_id)

C6_Witness ==
    /\ pc = "exited"
    /\ kwargs.app_model = "ok"
    /\ \E k \in DOMAIN doc : InAllowLists(doc[k], kwargs)
    /\ log_processed = 0 /\ log_imported = 0 /\ log_skipped = 0
    /\ logged_items = <<>>

\* C7: parse_date of "0000-00-00 00:00:00" is 1900-01-01 00:00:00 with valid
\* False; of any other well-formed "YYYY-MM-DD HH:MM:SS" text it is the
\* time-zone-aware timestamp the text names, with valid True.
C7_DateFallback ==
    (norm.fn = "parse_date" /\ norm.done)
    => /\ norm.value = Sentinel
          => /\ norm.out.ok
             /\ norm.out.formatted =
                   [Y |-> 1900, m |-> 1, d |-> 1, H |-> 0, M |-> 0, S |-> 0,
                    tz |-> "current"]
             /\ norm.out.valid = FALSE
       /\ (norm.value /= Sentinel /\ WellFormedText(norm.value))
          => /\ norm.out.ok
             /\ norm.out.formatted = TimestampOf(norm.value) @@ [tz |-> "current"]
             /\ norm.out.valid = TRUE

C7_Witness ==
    /\ norm.fn = "parse_date" /\ norm.done
    /\ norm.value = Sentinel
    /\ norm.out.ok /\ ~norm.out.valid

\* C8: parse_slug reports exactly one of three outcomes: "blank slug" with
\* slugify(title) when the value is empty or absent; "OK" with the value
\* itself when it is non-empty and slugify leaves it as it is; "illegal chars
\* found" with slugify(value) when it is non-empty and slugify changes it.
C8_SlugOutcome ==
    (norm.fn = "parse_slug" /\ norm.done)
    => /\ (norm.value = None \/ norm.value = <<>>)
          => norm.out = <<slugify(norm.title), "blank slug">>
       /\ (norm.value /= None /\ norm.value /= <<>> /\ slugify(norm.value) = norm.value)
          => norm.out = <<norm.value, "OK">>
       /\ (norm.value /= None /\ norm.value /= <<>> /\ slugify(norm.value) /= norm.value)
          => norm.out = <<slugify(norm.value), "illegal chars found">>
       /\ norm.out[2] \in {"blank slug", "OK", "illegal chars found"}

C8_Witness ==
    /\ norm.fn = "parse_slug" /\ norm.done
    /\ norm.value /= None /\ norm.value /= <<>>
    /\ slugify(norm.value) /= norm.value
    /\ norm.out[2] = "illegal chars found"
    /\ norm.out[1] /= <<>>

\* What C9 says of an iteration: get_values raised, run() ended there, and
\* neither the table nor the log changed.
C9_Aborted ==
    /\ last.raised /= "none"
    /\ pc = "failed"
    /\ last.calls = {"get_values"}
    /\ store = last.before.store
    /\ Len(logged_items) = last.before.nlog

C10_IdentityUnique ==
    /\ Unique(start.store) => Unique(store)
    /\ (last.kind = "item" /\ "update_page" \in last.calls)
       => store[last.found]["wp_post_id"] = last.before.store[last.found]["wp_post_id"]
    /\ \A i \in RunEntries :
          Imported(i)
          => logged_items[i]["log"].result =
                IF \/ Holds(start.store, logged_items[i]["wp:post_id"])
                   \/ \E j \in RunEntries :
                         /\ j < i /\ Imported(j)
                         /\ logged_items[j]["wp:post_id"] = logged_items[i]["wp:post_id"]
                THEN "updated" ELSE "created"

C10_Witness ==
    /\ start.store = <<>>
    /\ last.kind = "item"
    /\ "update_page" \in last.calls
    /\ Len(logged_items) >= 2
    /\ logged_items[Len(logged_items) - 1]["log"].result = "created"
    /\ logged_items[Len(logged_items)]["log"].result = "updated"
    /\ Len(store) = 1

====
